---- MODULE Spec2Model ----
(***************************************************************************)
(* Alias runtime compatibility layer: the stream adapter                   *)
(* (adapt_alias_message_stream), the runner (AliasRunner.stream_query,     *)
(* stream_query_native, _get_or_create_conversation_id) and the SSE        *)
(* transport (event_generator).                                            *)
(*                                                                         *)
(* Python values are represented as follows.  An optional value is a       *)
(* sequence of length at most one: <<>> is None / an absent key, <<v>> is  *)
(* the value v.  A text is a sequence of one-character strings, so that    *)
(* str.startswith and slicing are computed on characters.  Identifiers     *)
(* and dictionary keys are TLA+ strings.                                   *)
(***************************************************************************)
EXTENDS Integers, Sequences, FiniteSets, TLC

VARIABLES
    \* ---- adapt_alias_message_stream (one generator instance) ----
    state_map,        \* state_key -> AliasAdapterState (mb/cb are the key itself)
    last_active_key,  \* Optional[str]
    out,              \* events the generator has yielded so far, in order
    fed,              \* items of the source stream processed so far, in order
    consumed,         \* number of chunks taken from source_stream
    apc,              \* position of the generator: "new", "run", "done", "raised"
    exc,              \* the exception in flight, if any (Optional)
    \* ---- AliasRunner (the runner object) ----
    health,           \* self._health
    cache,            \* self._session_conv_cache
    conv_calls,       \* calls of ConversationService.create_conversation
    backend_calls,    \* calls of query_handler (ChatService.chat)
    \* ---- AliasRunner.stream_query (one exchange) ----
    qpc,              \* position of the generator
    req,              \* req_dict
    yielded,          \* events yielded to the caller, with sequence numbers
    seq_gen,          \* SequenceNumberGenerator: the next number
    response,         \* the AgentResponse of the exchange
    conversation_id,  \* the resolved conversation id (Optional)
    \* ---- concurrent exchanges resolving their conversation ----
    tasks,            \* task -> [pc, session, given, made, conv]
    \* ---- AliasRunner.stream_query_native under event_generator ----
    npc,              \* position of stream_query_native
    nreq,             \* identity context: kwargs and request body
    nchunks,          \* chunks stream_query_native has yielded, in order
    produced,         \* chunks the backend stream has produced, in order
    frames,           \* SSE strings event_generator has yielded, in order
    \* ---- EnhancedStreamingResponse returned by chat ----
    sresp,            \* the response object: [user_id, task_id]
    lpc,              \* position of listen_for_disconnect
    received,         \* types of the messages receive() has returned, in order
    stop_calls,       \* calls of ChatService.stop_chat: <<user_id, task_id>>
    \* ---- alias_runner_singleton (module globals and its callers) ----
    the_runner,       \* _runner: the published instance (Optional)
    the_lock,         \* _lock: [created, holder (Optional)]
    runners,          \* AliasRunner instances constructed: "starting" |
                      \* "started" | "failed", by order of construction
    callers           \* caller -> [pc, calls, mine, ret]

adapterVars == <<state_map, last_active_key, out, fed, consumed, apc, exc>>

runnerVars == <<health, cache, conv_calls, backend_calls>>

queryVars == <<qpc, req, yielded, seq_gen, response, conversation_id>>

convVars == <<tasks>>

nativeVars == <<npc, nreq, nchunks, produced, frames>>

chatVars == <<sresp, lpc, received, stop_calls>>

singletonVars == <<the_runner, the_lock, runners, callers>>

vars == <<adapterVars, runnerVars, queryVars, convVars, nativeVars, chatVars,
          singletonVars>>

(***************************************************************************)
(* Bounds of the model.                                                    *)
(***************************************************************************)
\* Chunks taken from one backend stream.
MaxChunks == 3

\* Exchanges running concurrently on one runner.
NumTasks == 2

\* Messages the server delivers to one response's receive().
MaxMessages == 2

\* Calls of get_alias_runner by one caller.
MaxCalls == 2

(***************************************************************************)
(* Python helpers.                                                         *)
(***************************************************************************)
None == <<>>

Some(v) == <<v>>

\* Python truthiness of an optional string: None and "" are falsy.
Truthy(o) == o # None /\ o[1] # ""

\* Python `a or b` on optional strings.
PyOr(a, b) == IF Truthy(a) THEN a ELSE b

\* str() / f-string rendering of an optional string.
PyStr(o) == IF o = None THEN "None" ELSE o[1]

\* str.startswith on texts.
StartsWith(s, p) == Len(p) <= Len(s) /\ SubSeq(s, 1, Len(p)) = p

\* s[n:] on texts.
SliceFrom(s, n) == SubSeq(s, n + 1, Len(s))

(***************************************************************************)
(* agent_schemas constants used by the adapter.                            *)
(***************************************************************************)
REASONING == "reasoning"
PLUGIN_CALL == "plugin_call"
PLUGIN_CALL_OUTPUT == "plugin_call_output"
MESSAGE == "message"

ASSISTANT == "assistant"
TOOL == "tool"

DATA == "data"
TEXT == "text"

(***************************************************************************)
(* Raw input.  An item of chunk["data"]["messages"] is                     *)
(*   [id, type, status, tool_call_id, content, files]                      *)
(* where id, tool_call_id are optional strings, content is an optional     *)
(* text and files an optional list of [filename, url] records.             *)
(***************************************************************************)
Texts == {<<>>, <<"a">>, <<"a", "b">>, <<"b">>}

OneFile == <<[filename |-> <<"f">>, url |-> <<"u">>]>>

Item(id, tc, ty, st, c, f) ==
    [id |-> id, tool_call_id |-> tc, type |-> ty, status |-> st,
     content |-> c, files |-> f]

\* Items that exercise the identity table: three message kinds and both
\* statuses for two ids, and a tool call of the first id whose tool_call_id
\* is the second id.
LifecycleItems ==
    { Item(Some(id), None, ty, st, Some(<<"a">>), None) :
        id \in {"m1", "m2"},
        ty \in {"thought", "tool_call", "tool_result"},
        st \in {"running", "finished"} }
    \cup
    { Item(Some("m1"), Some("m2"), "tool_call", st, Some(<<"a">>), None) :
        st \in {"running", "finished"} }

\* Items that exercise the text handling of MESSAGE / REASONING identities:
\* growing, shrinking, diverging, missing and unchanged content, a second
\* identity in between, and files.
TextItems ==
    { Item(Some("m1"), None, "response", st, c, None) :
        st \in {"running", "finished"},
        c \in {None} \cup {Some(t) : t \in Texts \ {<<>>}} }
    \cup
    { Item(Some("m2"), None, "response", "running", Some(<<"a">>), None),
      Item(Some("m1"), None, "sub_thought", "running", Some(<<"a">>), None),
      Item(Some("m1"), None, "files", "running", Some(<<"a">>), None),
      Item(Some("m1"), None, "files", "running", Some(<<"a">>), Some(OneFile)) }

Pools == {LifecycleItems, TextItems}

(***************************************************************************)
(* adapt_alias_message_stream: classification of an item.                  *)
(***************************************************************************)
RuntimeType(alias_type) ==
    IF alias_type \in {"thought", "sub_thought"} THEN REASONING
    ELSE IF alias_type \in {"tool_call", "tool_use"} THEN PLUGIN_CALL
    ELSE IF alias_type = "tool_result" THEN PLUGIN_CALL_OUTPUT
    ELSE MESSAGE

TargetRole(alias_type) ==
    IF alias_type = "tool_result" THEN TOOL ELSE ASSISTANT

\* tool_call_id = inner_msg.get("tool_call_id") or alias_id
ToolCallId(item) == PyOr(item.tool_call_id, item.id)

\* The key without the message kind.
StateKeyNoKind(tool_call_id, runtime_type) == PyStr(tool_call_id)

\* state_key = f"{tool_call_id}_{runtime_type}"
StateKey(tool_call_id, runtime_type) ==
    PyStr(tool_call_id) \o "_" \o runtime_type

ItemKey(item) == StateKey(ToolCallId(item), RuntimeType(item.type))

ContentType(runtime_type) ==
    IF runtime_type \in {PLUGIN_CALL, PLUGIN_CALL_OUTPUT} THEN DATA ELSE TEXT

(***************************************************************************)
(* Events.  Every event is a record of one shape:                          *)
(*   object  "response" | "message" | "content"                            *)
(*   status  "created" | "in_progress" | "completed" | "failed"            *)
(*   key     the state_key of the owning message builder ("" for response) *)
(*   role, type  of the message ("" where not applicable)                  *)
(*   delta   TRUE for a text delta                                         *)
(*   text    the text carried (delta or replacement)                       *)
(*   call_id the call id of a data payload                                 *)
(*   error   the Error of a failed response (Optional)                     *)
(* For a response event, key is the id of the response object.             *)
(***************************************************************************)
Event(obj, st, key, role, ty, delta, text, call_id) ==
    [object |-> obj, status |-> st, key |-> key, role |-> role, type |-> ty,
     delta |-> delta, text |-> text, call_id |-> call_id, error |-> None]

\* The id of the adapter's own ResponseBuilder response.
RbId == "rb"

\* rb.created(), rb.in_progress(), rb.completed()
RbCreated == Event("response", "created", RbId, "", "", FALSE, <<>>, None)
RbInProgress == Event("response", "in_progress", RbId, "", "", FALSE, <<>>, None)
RbCompleted == Event("response", "completed", RbId, "", "", FALSE, <<>>, None)

\* mb.get_message_data() right after the builder is created
MessageOpened(key, role, rt) ==
    Event("message", "in_progress", key, role, rt, FALSE, <<>>, None)

\* state.mb.complete()
MessageCompleted(key, st) ==
    Event("message", "completed", key, st.role, st.runtime_type, FALSE, <<>>, None)

\* state.cb.complete()
ContentCompleted(key, st) ==
    Event("content", "completed", key, st.role, ContentType(st.runtime_type),
          FALSE, <<>>, None)

\* state.cb.add_text_delta(delta)
TextDelta(key, st, delta) ==
    Event("content", "in_progress", key, st.role, TEXT, TRUE, delta, None)

\* state.cb.set_text(raw_text)
TextSet(key, st, raw_text) ==
    Event("content", "in_progress", key, st.role, TEXT, FALSE, raw_text, None)

\* state.cb.set_data(fc.model_dump()) / set_data(fco.model_dump())
DataSet(key, st, call_id) ==
    Event("content", "in_progress", key, st.role, DATA, FALSE, <<>>, call_id)

IsMessageOpened(e) == e.object = "message" /\ e.status = "in_progress"
IsMessageCompleted(e) == e.object = "message" /\ e.status = "completed"
IsContentCompleted(e) == e.object = "content" /\ e.status = "completed"
IsTextDelta(e) == e.object = "content" /\ e.status = "in_progress" /\ e.delta
IsTextSet(e) ==
    e.object = "content" /\ e.status = "in_progress" /\ ~e.delta /\ e.type = TEXT

(***************************************************************************)
(* adapt_alias_message_stream: the body of `for item in messages`.         *)
(* Each step takes the adapter state [map, active] and returns the new     *)
(* state and the events yielded, in order.                                 *)
(***************************************************************************)
NewState(role, rt) ==
    [last_content |-> <<>>, is_completed |-> FALSE, runtime_type |-> rt,
     role |-> role]

\* A switch of identity that leaves the previous message open.
CloseOnSwitchSkipped(map, active, key) == [map |-> map, evs |-> <<>>]

\* The close on a switch with its two completions in the other order.
CloseOnSwitchReordered(map, active, key) ==
    IF active # None /\ active[1] # key
       /\ active[1] \in DOMAIN map /\ ~map[active[1]].is_completed
    THEN [map |-> [map EXCEPT ![active[1]].is_completed = TRUE],
          evs |-> <<MessageCompleted(active[1], map[active[1]]),
                    ContentCompleted(active[1], map[active[1]])>>]
    ELSE [map |-> map, evs |-> <<>>]

\* lines 119-124: the previously active identity is closed on a switch
CloseOnSwitch(map, active, key) ==
    IF active # None /\ active[1] # key
       /\ active[1] \in DOMAIN map /\ ~map[active[1]].is_completed
    THEN [map |-> [map EXCEPT ![active[1]].is_completed = TRUE],
          evs |-> <<ContentCompleted(active[1], map[active[1]]),
                    MessageCompleted(active[1], map[active[1]])>>]
    ELSE [map |-> map, evs |-> <<>>]

\* lines 128-142: first item of an identity creates its builders
OpenIfNew(map, key, role, rt) ==
    IF key \notin DOMAIN map
    THEN [map |-> [k \in DOMAIN map \cup {key} |->
                      IF k = key THEN NewState(role, rt) ELSE map[k]],
          evs |-> <<MessageOpened(key, role, rt)>>]
    ELSE [map |-> map, evs |-> <<>>]

\* "\n".join(f"<folder sign> [{f['filename']}]({f['url']})" for f in files),
\* on characters; the folder sign is written "#".
RECURSIVE RenderFiles(_)
RenderFiles(files) ==
    IF files = <<>> THEN <<>>
    ELSE LET f == files[1]
             line == <<"#", " ", "[">> \o f.filename \o <<"]", "(">> \o f.url \o <<")">>
         IN IF Len(files) = 1 THEN line
            ELSE line \o <<"\n">> \o RenderFiles(Tail(files))

\* lines 147-155
RawText(item) ==
    IF item.type = "files" /\ item.files # None
    THEN RenderFiles(item.files[1])
    ELSE IF item.content = None THEN <<>> ELSE item.content[1]

\* The whole raw_text sent as the delta.
ApplyTextWholeDelta(map, key, raw_text) ==
    LET st == map[key] IN
    IF StartsWith(raw_text, st.last_content)
    THEN [map |-> [map EXCEPT ![key].last_content = raw_text],
          evs |-> IF raw_text # st.last_content
                  THEN <<TextDelta(key, st, raw_text)>> ELSE <<>>]
    ELSE [map |-> [map EXCEPT ![key].last_content = raw_text],
          evs |-> <<TextSet(key, st, raw_text)>>]

\* The replacement branch without `state.last_content = raw_text`.
ApplyTextNoReset(map, key, raw_text) ==
    LET st == map[key] IN
    IF StartsWith(raw_text, st.last_content)
    THEN LET delta == SliceFrom(raw_text, Len(st.last_content)) IN
         [map |-> [map EXCEPT ![key].last_content = raw_text],
          evs |-> IF delta # <<>> THEN <<TextDelta(key, st, delta)>> ELSE <<>>]
    ELSE [map |-> map, evs |-> <<TextSet(key, st, raw_text)>>]

\* lines 157-164
ApplyText(map, key, raw_text) ==
    LET st == map[key] IN
    IF StartsWith(raw_text, st.last_content)
    THEN LET delta == SliceFrom(raw_text, Len(st.last_content)) IN
         [map |-> [map EXCEPT ![key].last_content = raw_text],
          evs |-> IF delta # <<>> THEN <<TextDelta(key, st, delta)>> ELSE <<>>]
    ELSE [map |-> [map EXCEPT ![key].last_content = raw_text],
          evs |-> <<TextSet(key, st, raw_text)>>]

\* lines 146-184
ApplyPayload(map, key, item) ==
    LET rt == RuntimeType(item.type) IN
    IF rt \in {MESSAGE, REASONING}
    THEN ApplyText(map, key, RawText(item))
    ELSE [map |-> map, evs |-> <<DataSet(key, map[key], ToolCallId(item))>>]

\* The close on "finished" without the `not state.is_completed` guard.
CloseIfFinishedUnguarded(map, key, alias_status) ==
    IF alias_status = "finished"
    THEN [map |-> [map EXCEPT ![key].is_completed = TRUE],
          evs |-> <<ContentCompleted(key, map[key]),
                    MessageCompleted(key, map[key])>>]
    ELSE [map |-> map, evs |-> <<>>]

\* The close taken for every status.
CloseIfFinishedAnyStatus(map, key, alias_status) ==
    IF ~map[key].is_completed
    THEN [map |-> [map EXCEPT ![key].is_completed = TRUE],
          evs |-> <<ContentCompleted(key, map[key]),
                    MessageCompleted(key, map[key])>>]
    ELSE [map |-> map, evs |-> <<>>]

\* lines 186-189
CloseIfFinished(map, key, alias_status) ==
    IF alias_status = "finished" /\ ~map[key].is_completed
    THEN [map |-> [map EXCEPT ![key].is_completed = TRUE],
          evs |-> <<ContentCompleted(key, map[key]),
                    MessageCompleted(key, map[key])>>]
    ELSE [map |-> map, evs |-> <<>>]

\* lines 97-189: one iteration of the loop over the items
AdaptItem(map, active, item) ==
    LET key == ItemKey(item)
        s1 == CloseOnSwitch(map, active, key)
        s2 == OpenIfNew(s1.map, key, TargetRole(item.type), RuntimeType(item.type))
        s3 == ApplyPayload(s2.map, key, item)
        s4 == CloseIfFinished(s3.map, key, item.status)
    IN [map |-> s4.map, active |-> Some(key),
        evs |-> s1.evs \o s2.evs \o s3.evs \o s4.evs]

\* lines 191-201: the states still open, in the order of state_map.values().
\* At most one state is open (the active one), so the order is immaterial;
\* the keys are closed in an order chosen by CHOOSE.
RECURSIVE FinalizeKeys(_, _)
FinalizeKeys(map, keys) ==
    IF keys = {} THEN <<>>
    ELSE LET k == CHOOSE x \in keys : TRUE IN
         <<ContentCompleted(k, map[k]), MessageCompleted(k, map[k])>>
         \o FinalizeKeys(map, keys \ {k})

OpenKeys(map) == {k \in DOMAIN map : ~map[k].is_completed}

(***************************************************************************)
(* Exceptions.  base tells a BaseError (alias.server.exceptions.base),     *)
(* which carries a code and a message, from any other Exception, of which  *)
(* only str(exc), held in message, is used.                                *)
(***************************************************************************)
BaseError(code, message) == [base |-> TRUE, code |-> code, message |-> message]

OtherError(message) == [base |-> FALSE, code |-> 0, message |-> message]

AttributeError == OtherError("object has no attribute 'get'")

Exceptions ==
    {BaseError(503, "down"), BaseError(404, "gone"), OtherError("boom")}

(***************************************************************************)
(* The adapter as a state machine.  apc is the position of the generator:  *)
(* "new" before its first resumption, "run" inside `async for chunk`,      *)
(* "done" after rb.completed(), "raised" when an exception left it.        *)
(***************************************************************************)
AdapterInit ==
    /\ state_map = <<>>
    /\ last_active_key = None
    /\ out = <<>>
    /\ fed = <<>>
    /\ consumed = 0
    /\ apc = "new"
    /\ exc = None

\* lines 84-89: the first resumption yields rb.created() and rb.in_progress()
AdaptStart ==
    /\ apc = "new"
    /\ out' = out \o <<RbCreated, RbInProgress>>
    /\ apc' = "run"
    /\ UNCHANGED <<state_map, last_active_key, fed, consumed, exc>>

\* lines 92-95: a chunk that is not a dict or has no "data" key is skipped
\* (`continue`); for a chunk whose data has no or an empty "messages" the
\* loop body never runs.  Either way only the position in the source moves.
AdaptSkipChunk ==
    /\ apc = "run"
    /\ consumed < MaxChunks
    /\ consumed' = consumed + 1
    /\ UNCHANGED <<state_map, last_active_key, out, fed, apc, exc>>

\* lines 96-189: the next item of the source stream, drawn from pool.  A
\* chunk with several items behaves as that many chunks with one item each:
\* the adapter keeps no state per chunk.
AdaptFeed(pool) ==
    /\ apc = "run"
    /\ consumed < MaxChunks
    /\ \E item \in pool :
         LET r == AdaptItem(state_map, last_active_key, item) IN
         /\ state_map' = r.map
         /\ last_active_key' = r.active
         /\ out' = out \o r.evs
         /\ fed' = Append(fed, item)
    /\ consumed' = consumed + 1
    /\ apc' = "run"
    /\ exc' = exc

\* lines 191-203: the source stream ends
AdaptEnd ==
    /\ apc = "run"
    /\ out' = out \o FinalizeKeys(state_map, OpenKeys(state_map)) \o <<RbCompleted>>
    /\ state_map' = [k \in DOMAIN state_map |->
                        [state_map[k] EXCEPT !.is_completed = TRUE]]
    /\ apc' = "done"
    /\ UNCHANGED <<last_active_key, fed, consumed, exc>>

\* What cb.complete() or mb.complete() raises when a builder fails.
BuilderError == OtherError("builder failed")

\* lines 193-201, one closure attempt for key k.  outcome is "ok", "cb"
\* (cb.complete() raises) or "mb" (cb.complete() is yielded, mb.complete()
\* raises); is_completed is set only after both yields.
ClosureEvents(map, k, outcome) ==
    CASE outcome = "ok" -> <<ContentCompleted(k, map[k]), MessageCompleted(k, map[k])>>
      [] outcome = "mb" -> <<ContentCompleted(k, map[k])>>
      [] OTHER -> <<>>

\* lines 191-201 with the outcome of each attempt given by outcomes.
RECURSIVE FinalizeWith(_, _, _)
FinalizeWith(map, keys, outcomes) ==
    IF keys = {} THEN <<>>
    ELSE LET k == CHOOSE x \in keys : TRUE IN
         ClosureEvents(map, k, outcomes[k]) \o FinalizeWith(map, keys \ {k}, outcomes)

\* A closure failure that leaves the generator.
AfterClosuresPropagating(failed) ==
    IF failed THEN [apc |-> "raised", exc |-> Some(BuilderError), evs |-> <<>>]
    ELSE [apc |-> "done", exc |-> None, evs |-> <<RbCompleted>>]

\* lines 197-203: `except Exception: pass` absorbs a failed attempt, the
\* loop goes on, and rb.completed() is yielded after it.
AfterClosures(failed) == [apc |-> "done", exc |-> None, evs |-> <<RbCompleted>>]

\* lines 191-203: the source stream ends and at least one closure attempt
\* fails
AdaptEndClosureRaises ==
    /\ apc = "run"
    /\ OpenKeys(state_map) # {}
    /\ \E outcomes \in [OpenKeys(state_map) -> {"ok", "cb", "mb"}] :
          /\ \E k \in OpenKeys(state_map) : outcomes[k] # "ok"
          /\ LET r == AfterClosures(TRUE) IN
             /\ out' = out \o FinalizeWith(state_map, OpenKeys(state_map), outcomes)
                           \o r.evs
             /\ apc' = r.apc
             /\ exc' = r.exc
          /\ state_map' = [k \in DOMAIN state_map |->
                             IF k \in OpenKeys(state_map) /\ outcomes[k] = "ok"
                             THEN [state_map[k] EXCEPT !.is_completed = TRUE]
                             ELSE state_map[k]]
    /\ UNCHANGED <<last_active_key, fed, consumed>>

\* line 91: `async for chunk in source_stream` raises what the source raises
AdaptSourceRaises(errors) ==
    /\ apc = "run"
    /\ \E e \in errors : exc' = Some(e)
    /\ apc' = "raised"
    /\ UNCHANGED <<state_map, last_active_key, out, fed, consumed>>

\* lines 95-102: a chunk whose "data" has no .get (None, a string, a list),
\* or a messages list with an item that has no .get: AttributeError
AdaptBadChunk ==
    /\ apc = "run"
    /\ consumed < MaxChunks
    /\ consumed' = consumed + 1
    /\ exc' = Some(AttributeError)
    /\ apc' = "raised"
    /\ UNCHANGED <<state_map, last_active_key, out, fed>>

(***************************************************************************)
(* AliasRunner: the request.  req_dict is                                  *)
(*   [input, session_id, conversation_id]                                  *)
(* with session_id, conversation_id optional strings.  input is a plain    *)
(* text, a list of turns, or anything else (None, a number, a mapping).    *)
(* A turn that is a dict has a content (a text, a list of blocks, or       *)
(* anything else) and an optional text field that is a str; a block that   *)
(* is a dict has a type and an optional text.                              *)
(***************************************************************************)
StrInput(t) == [kind |-> "str", text |-> t, turns |-> <<>>]
ListInput(turns) == [kind |-> "list", text |-> <<>>, turns |-> turns]
OtherInput == [kind |-> "other", text |-> <<>>, turns |-> <<>>]

StrContent(t) == [kind |-> "str", text |-> t, blocks |-> <<>>]
ListContent(blocks) == [kind |-> "list", text |-> <<>>, blocks |-> blocks]
OtherContent == [kind |-> "other", text |-> <<>>, blocks |-> <<>>]

Turn(isdict, content, text) == [isdict |-> isdict, content |-> content, text |-> text]
Block(isdict, type, text) == [isdict |-> isdict, type |-> type, text |-> text]

\* lines 107-109: the last block that is a dict of type "text", if any
RECURSIVE LastTextBlock(_)
LastTextBlock(blocks) ==
    IF blocks = <<>> THEN None
    ELSE LET blk == blocks[Len(blocks)] IN
         IF blk.isdict /\ blk.type = "text" THEN Some(blk)
         ELSE LastTextBlock(SubSeq(blocks, 1, Len(blocks) - 1))

\* lines 110-111
TurnTextField(last) == IF last.text # None THEN last.text[1] ELSE <<>>

\* lines 95-112: _extract_text_from_agent_request
ExtractText(agent_input) ==
    IF agent_input.kind = "str" THEN agent_input.text
    ELSE IF agent_input.kind = "list" /\ agent_input.turns # <<>>
    THEN LET last == agent_input.turns[Len(agent_input.turns)] IN
         IF ~last.isdict THEN <<>>
         ELSE IF last.content.kind = "str" THEN last.content.text
         ELSE LET blk == IF last.content.kind = "list"
                         THEN LastTextBlock(last.content.blocks) ELSE None
              IN IF blk # None
                 THEN (IF blk[1].text = None THEN <<>> ELSE blk[1].text[1])
                 ELSE TurnTextField(last)
    ELSE <<>>

\* lines 115-123: _to_uuid on an optional string.  The strings that parse
\* as a UUID are those of UuidOf; a UUID is represented by a number.
UuidOf == ("u7" :> 7) @@ ("u8" :> 8)

ToUuid(o) ==
    IF o = None THEN None
    ELSE IF o[1] \in DOMAIN UuidOf THEN Some(UuidOf[o[1]]) ELSE None

\* str(n) for a natural number
RECURSIVE IntToStr(_)
IntToStr(n) ==
    LET d == <<"0", "1", "2", "3", "4", "5", "6", "7", "8", "9">>[(n % 10) + 1] IN
    IF n < 10 THEN d ELSE IntToStr(n \div 10) \o d

(***************************************************************************)
(* AliasRunner.stream_query: the response object and what is yielded.      *)
(***************************************************************************)
RequestId == "req"

\* The event a caller receives when the response object is yielded.
ResponseEvent(resp) ==
    [object |-> "response", status |-> resp.status, key |-> RequestId,
     role |-> "", type |-> "", delta |-> FALSE, text |-> <<>>,
     call_id |-> None, error |-> resp.error]

Error(code, message) == [code |-> code, message |-> message]

\* Every event of the batch gets the same number.
NumberedSame(evs, start) ==
    [i \in DOMAIN evs |-> [event |-> evs[i], sequence_number |-> start]]

\* seq_gen.yield_with_sequence(event) for each event of evs in turn
Numbered(evs, start) ==
    [i \in DOMAIN evs |-> [event |-> evs[i], sequence_number |-> start + i - 1]]

\* Every exception mapped to code 500.
ErrorOfAlways500(e) ==
    Error("500", "Error happens in query_handler: " \o e.message)

\* lines 353-359
ErrorOf(e) ==
    IF e.base THEN Error(IntToStr(e.code), e.message)
    ELSE Error("500", "Error happens in query_handler: " \o e.message)

\* yield seq_gen.yield_with_sequence(...) of the events evs
Yield(evs) ==
    /\ yielded' = yielded \o Numbered(evs, seq_gen)
    /\ seq_gen' = seq_gen + Len(evs)

\* The failure path returns without yielding the failed event.
FailWithoutEvent(err) ==
    /\ response' = [response EXCEPT !.status = "failed", !.error = Some(err)]
    /\ UNCHANGED <<yielded, seq_gen>>
    /\ qpc' = "done"

\* yield seq_gen.yield_with_sequence(response.failed(err)); return
FailWith(err) ==
    /\ response' = [response EXCEPT !.status = "failed", !.error = Some(err)]
    /\ Yield(<<ResponseEvent(response')>>)
    /\ qpc' = "done"

(***************************************************************************)
(* Requests of the exchange.                                               *)
(***************************************************************************)
QueryInputs ==
    { StrInput(<<"h", "i">>),
      StrInput(<<>>),
      OtherInput,
      ListInput(<<>>),
      ListInput(<<Turn(TRUE, StrContent(<<"o">>), None),
                  Turn(TRUE, StrContent(<<>>), Some(<<"t">>))>>),
      ListInput(<<Turn(TRUE, ListContent(<<Block(TRUE, "text", Some(<<"x">>)),
                                           Block(TRUE, "image", None)>>), None)>>),
      ListInput(<<Turn(TRUE, OtherContent, Some(<<"t">>))>>) }

Requests ==
    [input : QueryInputs,
     session_id : {None, Some("s1")},
     conversation_id : {None, Some("u7"), Some("junk")}]

\* Items of the backend stream of the exchange.
QueryItems ==
    { Item(Some(id), None, ty, st, Some(<<"a">>), None) :
        id \in {"m1"}, ty \in {"response", "tool_result"},
        st \in {"running", "finished"} }

\* session_id = req_dict.get("session_id") or f"session_{uuid4()}"
SessionOf(r) == IF Truthy(r.session_id) THEN r.session_id[1] ELSE "session_fresh"

\* SequenceNumberGenerator(): the first number
InitialSeq == 0

QueryInit ==
    /\ qpc = "new"
    /\ health \in BOOLEAN
    /\ req \in Requests
    /\ yielded = <<>>
    /\ seq_gen = InitialSeq
    /\ response = [status |-> "created", output |-> <<>>, error |-> None,
                   usage |-> None]
    /\ conversation_id = None
    /\ cache \in {<<>>, ("s1" :> 50)}
    /\ conv_calls = 0
    /\ backend_calls = 0

\* A started runner that nothing has used yet.
RunnerIdle ==
    /\ health = TRUE
    /\ cache = <<>>
    /\ conv_calls = 0
    /\ backend_calls = 0

\* No stream_query exchange is modelled.
QueryIdle ==
    /\ qpc = "idle"
    /\ req = [input |-> OtherInput, session_id |-> None, conversation_id |-> None]
    /\ yielded = <<>>
    /\ seq_gen = InitialSeq
    /\ response = [status |-> "created", output |-> <<>>, error |-> None,
                   usage |-> None]
    /\ conversation_id = None

\* lines 251-256: the runner was not started
QNotStarted ==
    /\ qpc = "new"
    /\ ~health
    /\ qpc' = "raised"
    /\ UNCHANGED <<health, req, yielded, seq_gen, response, conversation_id,
                   cache, conv_calls, backend_calls>>
    /\ UNCHANGED adapterVars

\* lines 258-274
QCreated ==
    /\ qpc = "new"
    /\ health
    /\ Yield(<<ResponseEvent(response)>>)
    /\ qpc' = "created"
    /\ UNCHANGED <<health, req, response, conversation_id, cache, conv_calls,
                   backend_calls>>
    /\ UNCHANGED adapterVars

\* lines 276-277
QInProgress ==
    /\ qpc = "created"
    /\ response' = [response EXCEPT !.status = "in_progress"]
    /\ Yield(<<ResponseEvent(response')>>)
    /\ qpc' = "in_progress"
    /\ UNCHANGED <<health, req, conversation_id, cache, conv_calls, backend_calls>>
    /\ UNCHANGED adapterVars

\* The empty-text check left out.
QExtractNoCheck ==
    /\ qpc = "in_progress"
    /\ qpc' = "resolve"
    /\ UNCHANGED <<yielded, seq_gen, response>>
    /\ UNCHANGED <<health, req, conversation_id, cache, conv_calls, backend_calls>>
    /\ UNCHANGED adapterVars

\* lines 279-293
QExtract ==
    /\ qpc = "in_progress"
    /\ IF ExtractText(req.input) = <<>>
       THEN FailWith(Error("422", "Empty input text in AgentRequest.input."))
       ELSE /\ qpc' = "resolve"
            /\ UNCHANGED <<yielded, seq_gen, response>>
    /\ UNCHANGED <<health, req, conversation_id, cache, conv_calls, backend_calls>>
    /\ UNCHANGED adapterVars

\* lines 134-135: the cached conversation id of a session, if any
CachedConv(c, sid) == IF sid \in DOMAIN c THEN Some(c[sid]) ELSE None

\* line 159: self._session_conv_cache[session_id] = conv_id
StoreConv(c, sid, id) == (sid :> id) @@ c

\* The id of the conversation made by the n-th call of create_conversation.
NewConvId(n) == 100 + n

\* What makes _get_or_create_conversation_id raise: create_conversation
\* raises, or returns an object whose id is no UUID (RuntimeError, line 153).
CreateFailures == {"db down", "create_conversation() returned invalid id"}

\* lines 295-308 with _get_or_create_conversation_id (lines 134-160) run
\* without another exchange in between.
QResolve ==
    /\ qpc = "resolve"
    /\ LET given == ToUuid(req.conversation_id)
           sid == SessionOf(req)
       IN IF given # None
          THEN /\ conversation_id' = given
               /\ qpc' = "validate"
               /\ UNCHANGED <<cache, conv_calls, yielded, seq_gen, response>>
          ELSE IF CachedConv(cache, sid) # None
          THEN /\ conversation_id' = CachedConv(cache, sid)
               /\ qpc' = "validate"
               /\ UNCHANGED <<cache, conv_calls, yielded, seq_gen, response>>
          ELSE /\ conv_calls' = conv_calls + 1
               /\ \/ /\ conversation_id' = Some(NewConvId(conv_calls'))
                     /\ cache' = StoreConv(cache, sid, NewConvId(conv_calls'))
                     /\ qpc' = "validate"
                     /\ UNCHANGED <<yielded, seq_gen, response>>
                  \/ /\ \E m \in CreateFailures :
                          FailWith(Error("500", "Failed to create conversation: " \o m))
                     /\ UNCHANGED <<conversation_id, cache>>
    /\ UNCHANGED <<health, req, backend_calls>>
    /\ UNCHANGED adapterVars

\* lines 310-327: ChatRequest.model_validate accepts or raises ValidationError
QValidate ==
    /\ qpc = "validate"
    /\ \/ /\ qpc' = "invoke"
          /\ UNCHANGED <<yielded, seq_gen, response>>
       \/ FailWith(Error("422", "ChatRequest validation failed: invalid"))
    /\ UNCHANGED <<health, req, conversation_id, cache, conv_calls, backend_calls>>
    /\ UNCHANGED adapterVars

\* lines 329-337: query_handler returns the backend stream or raises
QInvoke ==
    /\ qpc = "invoke"
    /\ backend_calls' = backend_calls + 1
    /\ \/ /\ qpc' = "stream"
          /\ exc' = exc
       \/ /\ \E e \in Exceptions : exc' = Some(e)
          /\ qpc' = "except"
    /\ UNCHANGED <<health, req, yielded, seq_gen, response, conversation_id,
                   cache, conv_calls>>
    /\ UNCHANGED <<state_map, last_active_key, out, fed, consumed, apc>>

\* The events the adapter yielded in this step.
NewEvents == SubSeq(out', Len(out) + 1, Len(out'))

\* lines 341-345: the events of evs that response.add_new_message is
\* called for, by position
AppendCalls(evs) == {i \in 1..Len(evs) : IsMessageCompleted(evs[i])}

\* The events of evs at the positions of idx, in order.
Pick(evs, idx) ==
    LET at == SelectSeq([i \in 1..Len(evs) |-> i], LAMBDA i : i \in idx)
    IN [j \in 1..Len(at) |-> evs[at[j]]]

\* An event whose append failed is not forwarded.
ForwardUnlessAppendFails(evs, failed) ==
    /\ response' = [response EXCEPT
                      !.output = @ \o Pick(evs, AppendCalls(evs) \ failed)]
    /\ Yield(Pick(evs, (1..Len(evs)) \ failed))

\* lines 339-350 for the events evs of the adapter, in order: a completed
\* message is appended to response.output unless add_new_message raises
\* (positions failed; `except Exception: pass`), every event is yielded
\* numbered.
Forward(evs, failed) ==
    /\ response' = [response EXCEPT
                      !.output = @ \o Pick(evs, AppendCalls(evs) \ failed)]
    /\ Yield(evs)

\* lines 339-350 around one step A of the adapter: what it yields is
\* forwarded; its end leads to line 363, an exception to line 352.
QStream(A) ==
    /\ qpc = "stream"
    /\ A
    /\ \E failed \in SUBSET AppendCalls(NewEvents) : Forward(NewEvents, failed)
    /\ qpc' = CASE apc' = "done" -> "finish"
                [] apc' = "raised" -> "except"
                [] OTHER -> "stream"
    /\ UNCHANGED <<health, req, conversation_id, cache, conv_calls, backend_calls>>

QAdaptStart == QStream(AdaptStart)

QAdaptSkipChunk == QStream(AdaptSkipChunk)

QAdaptNextItem == QStream(AdaptFeed(QueryItems))

QAdaptBadChunk == QStream(AdaptBadChunk)

QAdaptSourceRaises == QStream(AdaptSourceRaises(Exceptions))

QAdaptEnd == QStream(AdaptEnd)

\* lines 352-361
QExcept ==
    /\ qpc = "except"
    /\ FailWith(ErrorOf(exc[1]))
    /\ UNCHANGED <<health, req, conversation_id, cache, conv_calls, backend_calls>>
    /\ UNCHANGED adapterVars

\* lines 363-371
QComplete ==
    /\ qpc = "finish"
    /\ response' = [response EXCEPT
                      !.status = "completed",
                      !.usage = IF response.output # <<>>
                                THEN Some(response.output[Len(response.output)].key)
                                ELSE @]
    /\ Yield(<<ResponseEvent(response')>>)
    /\ qpc' = "done"
    /\ UNCHANGED <<health, req, conversation_id, cache, conv_calls, backend_calls>>
    /\ UNCHANGED adapterVars

(***************************************************************************)
(* Concurrent stream_query exchanges on one runner, from line 295 to the   *)
(* call of query_handler.  Each exchange is an asyncio task; a task runs   *)
(* without interruption between two awaits.  _get_or_create_conversation_id *)
(* awaits inside `async with session_scope()` (entering it, the call of    *)
(* create_conversation) and when leaving it, so a task is suspended        *)
(* between the cache check (line 134) and the creation call, and between   *)
(* the creation call and the cache store (line 159).                       *)
(*   pc       "resolve" | "creating" | "created" | "resolved" | "failed"   *)
(*   session  session_id of the request                                    *)
(*   given    _to_uuid(req_dict.get("conversation_id"))                    *)
(*   made     the id of the conversation this task created (Optional)      *)
(*   conv     the conversation id the exchange runs against (Optional)     *)
(***************************************************************************)
Tasks == 1..NumTasks

Sessions == {"s1", "s2"}

TaskStart ==
    [pc : {"resolve"}, session : Sessions, given : {None, Some(7)},
     made : {None}, conv : {None}]

ConvInit ==
    /\ tasks \in [Tasks -> TaskStart]
    /\ health = TRUE
    /\ cache \in {<<>>, ("s2" :> 50)}
    /\ conv_calls = 0
    /\ backend_calls = 0

\* No concurrent exchanges are modelled.
ConvIdle == tasks = <<>>

\* lines 295-296 and 134-137: the request's conversation id, else the
\* cached one, else the task goes on to create one
TCheck(t) ==
    /\ tasks[t].pc = "resolve"
    /\ LET hit == CachedConv(cache, tasks[t].session) IN
       tasks' = [tasks EXCEPT ![t] =
                   IF tasks[t].given # None
                   THEN [@ EXCEPT !.pc = "resolved", !.conv = tasks[t].given]
                   ELSE IF hit # None
                   THEN [@ EXCEPT !.pc = "resolved", !.conv = hit]
                   ELSE [@ EXCEPT !.pc = "creating"]]
    /\ UNCHANGED runnerVars

\* lines 137-157: create_conversation is called and returns a conversation,
\* or the creation fails (lines 302-308: the exchange yields failed)
TCreate(t) ==
    /\ tasks[t].pc = "creating"
    /\ conv_calls' = conv_calls + 1
    /\ \/ tasks' = [tasks EXCEPT ![t].pc = "created",
                                 ![t].made = Some(NewConvId(conv_calls'))]
       \/ tasks' = [tasks EXCEPT ![t].pc = "failed"]
    /\ UNCHANGED <<health, cache, backend_calls>>

\* lines 159-160
TStore(t) ==
    /\ tasks[t].pc = "created"
    /\ cache' = StoreConv(cache, tasks[t].session, tasks[t].made[1])
    /\ tasks' = [tasks EXCEPT ![t].pc = "resolved", ![t].conv = tasks[t].made]
    /\ UNCHANGED <<health, conv_calls, backend_calls>>

(***************************************************************************)
(* stream_query_native consumed by event_generator.  A chunk is the str    *)
(* s or a dict d; a dict is a sequence of [k, v] pairs in insertion order, *)
(* a value an int or a str.  Backend chunks are JSON-serialisable dicts.   *)
(***************************************************************************)
IntV(i) == [t |-> "int", i |-> i, s |-> ""]
StrV(x) == [t |-> "str", i |-> 0, s |-> x]
Pair(k, v) == [k |-> k, v |-> v]

StrChunk(x) == [kind |-> "str", s |-> x, d |-> <<>>]
DictChunk(d) == [kind |-> "dict", s |-> "", d |-> d]

DoneToken == StrChunk("[DONE]")

\* json.dumps of an int or a str
JsonValue(v) == IF v.t = "int" THEN IntToStr(v.i) ELSE "\"" \o v.s \o "\""

\* json.dumps of the pairs of a dict, without the braces
RECURSIVE JsonPairs(_)
JsonPairs(d) ==
    IF d = <<>> THEN ""
    ELSE LET one == "\"" \o d[1].k \o "\": " \o JsonValue(d[1].v) IN
         IF Len(d) = 1 THEN one ELSE one \o ", " \o JsonPairs(Tail(d))

JsonDumps(c) ==
    IF c.kind = "str" THEN "\"" \o c.s \o "\"" ELSE "{" \o JsonPairs(c.d) \o "}"

DoneFrame == "data: [DONE]\n\n"

\* chat_runtime.py lines 59-70: _to_raw_sse_event
ToRawSseEvent(data) ==
    IF data = DoneToken THEN DoneFrame
    ELSE "data: " \o JsonDumps(data) \o "\n\n"

\* lines 190-197
MissingContextChunk ==
    DictChunk(<<Pair("error", StrV("missing_context")), Pair("code", IntV(422)),
                Pair("message", StrV("Native mode requires user_id and conversation_id in kwargs or request body."))>>)

\* lines 203-208 (the detail list is left out) and lines 211-215
InvalidRequestChunks ==
    { DictChunk(<<Pair("error", StrV("invalid_request")), Pair("code", IntV(422)),
                  Pair("message", StrV("ChatRequest validation failed"))>>),
      DictChunk(<<Pair("error", StrV("invalid_request")), Pair("code", IntV(500)),
                  Pair("message", StrV("boom"))>>) }

\* lines 232-239
BackendErrorChunk(e) ==
    IF e.base
    THEN DictChunk(<<Pair("error", StrV(e.message)), Pair("code", IntV(e.code))>>)
    ELSE DictChunk(<<Pair("error", StrV(e.message)), Pair("code", IntV(500)),
                     Pair("error_type", StrV("Exception"))>>)

\* chat_runtime.py lines 89-94
GeneratorErrorData(e) ==
    IF e.base
    THEN DictChunk(<<Pair("code", IntV(e.code)), Pair("message", StrV(e.message))>>)
    ELSE DictChunk(<<Pair("code", IntV(500)), Pair("message", StrV(e.message))>>)

NotStartedError == OtherError("Runner has not been started.")

\* What the backend streams in native mode.
RawChunks == {DictChunk(<<Pair("n", IntV(n))>>) : n \in {1, 2}}

\* kwargs.get("user_id") or self._to_uuid(req_dict.get("user_id")), and the
\* same for conversation_id (lines 177-182)
\* A user identity made up when none is given.
NativeUserDerived(r) ==
    IF r.kw_user # None THEN r.kw_user
    ELSE IF ToUuid(r.req_user) # None THEN ToUuid(r.req_user) ELSE Some(5)

NativeUser(r) == IF r.kw_user # None THEN r.kw_user ELSE ToUuid(r.req_user)
NativeConv(r) == IF r.kw_conv # None THEN r.kw_conv ELSE ToUuid(r.req_conv)

NativeRequests ==
    [kw_user : {None, Some(1)}, req_user : {None, Some("u8")},
     kw_conv : {None, Some(7)}, req_conv : {None, Some("junk")}]

NativeInit ==
    /\ npc = "new"
    /\ nreq \in NativeRequests
    /\ nchunks = <<>>
    /\ produced = <<>>
    /\ frames = <<>>
    /\ health \in BOOLEAN
    /\ cache = <<>>
    /\ conv_calls = 0
    /\ backend_calls = 0

\* No native exchange is modelled.
NativeIdle ==
    /\ npc = "idle"
    /\ nreq = [kw_user |-> None, req_user |-> None, kw_conv |-> None,
               req_conv |-> None]
    /\ nchunks = <<>>
    /\ produced = <<>>
    /\ frames = <<>>

\* stream_query_native yields chunk and event_generator (line 87) yields
\* its SSE string.
RelaySerialised(chunk) ==
    /\ nchunks' = Append(nchunks, StrChunk(JsonDumps(chunk)))
    /\ frames' = Append(frames, ToRawSseEvent(chunk))

Relay(chunk) ==
    /\ nchunks' = Append(nchunks, chunk)
    /\ frames' = Append(frames, ToRawSseEvent(chunk))

\* alias_runner.py lines 167-172: the runner was not started, the generator
\* raises; chat_runtime.py lines 88-96: event_generator yields the error
\* data and then [DONE]
NNotStarted ==
    /\ npc = "new"
    /\ ~health
    /\ frames' = frames \o <<ToRawSseEvent(GeneratorErrorData(NotStartedError)),
                             ToRawSseEvent(DoneToken)>>
    /\ npc' = "done"
    /\ UNCHANGED <<nreq, nchunks, produced, runnerVars>>

\* lines 174-198: no user_id or no conversation_id
NMissingContext ==
    /\ npc = "new"
    /\ health
    /\ NativeUser(nreq) = None \/ NativeConv(nreq) = None
    /\ Relay(MissingContextChunk)
    /\ npc' = "done"
    /\ UNCHANGED <<nreq, produced, runnerVars>>

\* lines 200-216: ChatRequest.model_validate(req_dict) accepts or raises
NValidate ==
    /\ npc = "new"
    /\ health
    /\ NativeUser(nreq) # None /\ NativeConv(nreq) # None
    /\ \/ /\ npc' = "invoke"
          /\ UNCHANGED <<nchunks, frames>>
       \/ /\ \E c \in InvalidRequestChunks : Relay(c)
          /\ npc' = "done"
    /\ UNCHANGED <<nreq, produced, runnerVars>>

\* lines 218-226 and 231-240: query_handler returns the stream or raises
NInvoke ==
    /\ npc = "invoke"
    /\ backend_calls' = backend_calls + 1
    /\ \/ /\ npc' = "stream"
          /\ UNCHANGED <<nchunks, frames>>
       \/ /\ \E e \in Exceptions : Relay(BackendErrorChunk(e))
          /\ npc' = "done"
    /\ UNCHANGED <<nreq, produced, health, cache, conv_calls>>

\* lines 228-229
NChunk ==
    /\ npc = "stream"
    /\ Len(nchunks) < MaxChunks
    /\ \E c \in RawChunks :
          /\ produced' = Append(produced, c)
          /\ Relay(c)
    /\ UNCHANGED <<npc, nreq, runnerVars>>

\* lines 228 and 231-240: the backend stream raises
NStreamRaises ==
    /\ npc = "stream"
    /\ \E e \in Exceptions : Relay(BackendErrorChunk(e))
    /\ npc' = "done"
    /\ UNCHANGED <<nreq, produced, runnerVars>>

\* line 242: the backend stream ended
NStreamEnd ==
    /\ npc = "stream"
    /\ Relay(DoneToken)
    /\ npc' = "done"
    /\ UNCHANGED <<nreq, produced, runnerVars>>

(***************************************************************************)
(* The chat endpoint: an EnhancedStreamingResponse over event_generator.   *)
(* The response runs two tasks side by side, the one that sends the        *)
(* frames of event_generator and listen_for_disconnect; when either ends,  *)
(* the other is cancelled at its next await.                               *)
(*   lpc   "listening" | "stopping" (awaiting stop_chat) | "done" |        *)
(*         "cancelled" | "idle"                                            *)
(***************************************************************************)
HTTP_DISCONNECT == "http.disconnect"

MessageTypes == {"http.request", HTTP_DISCONNECT}

\* chat_runtime.py line 108: uuid.UUID(request_id) if request_id else
\* uuid.uuid4(); 9 stands for the fresh uuid4.
TaskIdOf(request_id) ==
    IF Truthy(request_id) THEN ToUuid(request_id)[1] ELSE 9

\* chat_runtime.py lines 106-130: the endpoint hands the same user_id and
\* task_id to event_generator and to the response, and always passes
\* user_id and conversation_id as kwargs.
ChatInit ==
    /\ \E u \in {1, 2}, rid \in {None, Some("u7"), Some("u8")} :
          /\ sresp = [user_id |-> u, task_id |-> TaskIdOf(rid)]
          /\ nreq = [kw_user |-> Some(u), req_user |-> None,
                     kw_conv |-> Some(7), req_conv |-> None]
    /\ npc = "new"
    /\ nchunks = <<>>
    /\ produced = <<>>
    /\ frames = <<>>
    /\ lpc = "listening"
    /\ received = <<>>
    /\ stop_calls = <<>>
    /\ health = TRUE
    /\ cache = <<>>
    /\ conv_calls = 0
    /\ backend_calls = 0

\* No response of the chat endpoint is modelled.
ChatIdle ==
    /\ sresp = [user_id |-> 0, task_id |-> 0]
    /\ lpc = "idle"
    /\ received = <<>>
    /\ stop_calls = <<>>

\* The sending task is still running and not being cancelled.
Streaming == npc # "done" /\ npc # "cancelled" /\ lpc # "done"

ShouldStopAlways(message_type) == TRUE

\* line 46: message["type"] == "http.disconnect"
ShouldStop(message_type) == message_type = HTTP_DISCONNECT

\* lines 44-55: receive() returns a message; on a disconnect stop_chat is
\* called with the response's user_id and task_id
LReceive ==
    /\ lpc = "listening"
    /\ Streaming
    /\ Len(received) < MaxMessages
    /\ \E m \in MessageTypes :
          /\ received' = Append(received, m)
          /\ IF ShouldStop(m)
             THEN /\ stop_calls' = Append(stop_calls,
                                          <<sresp.user_id, sresp.task_id>>)
                  /\ lpc' = "stopping"
             ELSE UNCHANGED <<stop_calls, lpc>>
    /\ UNCHANGED <<sresp, nativeVars, runnerVars>>

\* lines 52-56: stop_chat returns (or raises) and the listener ends
LStopReturns ==
    /\ lpc = "stopping"
    /\ lpc' = "done"
    /\ UNCHANGED <<sresp, received, stop_calls, nativeVars, runnerVars>>

\* The listener ended: the sending task is cancelled.
CancelStream ==
    /\ lpc = "done"
    /\ npc \notin {"done", "cancelled"}
    /\ npc' = "cancelled"
    /\ UNCHANGED <<nreq, nchunks, produced, frames, chatVars, runnerVars>>

\* The stream ended: the listener is cancelled in its await.
CancelListener ==
    /\ npc = "done"
    /\ lpc \in {"listening", "stopping"}
    /\ lpc' = "cancelled"
    /\ UNCHANGED <<sresp, received, stop_calls, nativeVars, runnerVars>>

(***************************************************************************)
(* get_alias_runner: the process-wide runner.  Callers are asyncio tasks   *)
(* of one event loop; a task runs without interruption between two awaits. *)
(* get_alias_runner awaits when it acquires the lock and in runner.start(). *)
(*   pc     "idle" | "acquire" (waiting for the lock) | "starting" (in     *)
(*          runner.start(), holding the lock) | "returned" | "raised"      *)
(*   calls  calls made so far                                              *)
(*   mine   the instance this call constructed (Optional)                  *)
(*   ret    what the last call returned (Optional)                         *)
(***************************************************************************)
SingletonInit ==
    /\ the_runner = None
    /\ the_lock = [created |-> FALSE, holder |-> None]
    /\ runners = <<>>
    /\ callers = [t \in Tasks |-> [pc |-> "idle", calls |-> 0, mine |-> None,
                                    ret |-> None]]

\* get_alias_runner is not modelled.
SingletonIdle ==
    /\ the_runner = None
    /\ the_lock = [created |-> FALSE, holder |-> None]
    /\ runners = <<>>
    /\ callers = <<>>

\* The lock is taken whoever holds it.
LockFreeAlways == TRUE

\* line 19: `async with _lock` goes on when nobody holds the lock
LockFree == the_lock.holder = None

\* lines 13-17: a call returns the published runner, or makes the lock if
\* there is none yet and goes on to acquire it
GCall(t) ==
    /\ callers[t].pc \in {"idle", "returned", "raised"}
    /\ callers[t].calls < MaxCalls
    /\ IF the_runner # None
       THEN /\ callers' = [callers EXCEPT ![t].pc = "returned",
                                          ![t].calls = @ + 1,
                                          ![t].mine = None,
                                          ![t].ret = the_runner]
            /\ UNCHANGED the_lock
       ELSE /\ callers' = [callers EXCEPT ![t].pc = "acquire",
                                          ![t].calls = @ + 1,
                                          ![t].mine = None,
                                          ![t].ret = None]
            /\ the_lock' = [the_lock EXCEPT !.created = TRUE]
    /\ UNCHANGED <<the_runner, runners>>

\* lines 19-23: the lock is acquired; the second check returns the runner
\* published meanwhile (releasing the lock), else a runner is constructed
\* and its start() awaited
GAcquire(t) ==
    /\ callers[t].pc = "acquire"
    /\ LockFree
    /\ IF the_runner # None
       THEN /\ callers' = [callers EXCEPT ![t].pc = "returned",
                                          ![t].ret = the_runner]
            /\ UNCHANGED <<the_lock, runners>>
       ELSE /\ runners' = Append(runners, "starting")
            /\ callers' = [callers EXCEPT ![t].pc = "starting",
                                          ![t].mine = Some(Len(runners) + 1)]
            /\ the_lock' = [the_lock EXCEPT !.holder = Some(t)]
    /\ UNCHANGED the_runner

\* lines 23-25: start() has completed; the runner is published and
\* returned, the lock released
GStarted(t) ==
    /\ callers[t].pc = "starting"
    /\ runners' = [runners EXCEPT ![callers[t].mine[1]] = "started"]
    /\ the_runner' = callers[t].mine
    /\ callers' = [callers EXCEPT ![t].pc = "returned", ![t].ret = callers[t].mine]
    /\ the_lock' = [the_lock EXCEPT !.holder = None]

\* line 23: start() raises; the lock is released, _runner is left as it is
GStartRaises(t) ==
    /\ callers[t].pc = "starting"
    /\ runners' = [runners EXCEPT ![callers[t].mine[1]] = "failed"]
    /\ callers' = [callers EXCEPT ![t].pc = "raised"]
    /\ the_lock' = [the_lock EXCEPT !.holder = None]
    /\ UNCHANGED the_runner

(***************************************************************************)
(* Specifications.                                                         *)
(***************************************************************************)
AdaptNextItem ==
    \E pool \in Pools :
        /\ \A i \in 1..Len(fed) : fed[i] \in pool
        /\ AdaptFeed(pool)

\* The adapter fed directly from a source stream.
AdapterOnly ==
    UNCHANGED <<runnerVars, queryVars, convVars, nativeVars, chatVars,
                singletonVars>>

AdapterSpecInit ==
    AdapterInit /\ RunnerIdle /\ QueryIdle /\ ConvIdle /\ NativeIdle /\ ChatIdle
    /\ SingletonIdle

AdapterNext ==
    \/ AdaptStart /\ AdapterOnly
    \/ AdaptSkipChunk /\ AdapterOnly
    \/ AdaptNextItem /\ AdapterOnly
    \/ AdaptBadChunk /\ AdapterOnly
    \/ AdaptSourceRaises({OtherError("boom")}) /\ AdapterOnly
    \/ AdaptEnd /\ AdapterOnly

SpecAdapter == AdapterSpecInit /\ [][AdapterNext]_vars

\* The adapter fed directly from a source stream, with builders whose
\* complete() may raise during the end-of-stream finalization.
FaultyNext ==
    \/ AdaptStart /\ AdapterOnly
    \/ AdaptSkipChunk /\ AdapterOnly
    \/ AdaptFeed(LifecycleItems) /\ AdapterOnly
    \/ AdaptEnd /\ AdapterOnly
    \/ AdaptEndClosureRaises /\ AdapterOnly

SpecAdapterFaulty == AdapterSpecInit /\ [][FaultyNext]_vars

\* One stream_query exchange, the adapter driven by the runner.
QueryOnly == UNCHANGED <<convVars, nativeVars, chatVars, singletonVars>>

Init == AdapterInit /\ QueryInit /\ ConvIdle /\ NativeIdle /\ ChatIdle
    /\ SingletonIdle

Next ==
    \/ QNotStarted /\ QueryOnly
    \/ QCreated /\ QueryOnly
    \/ QInProgress /\ QueryOnly
    \/ QExtract /\ QueryOnly
    \/ QResolve /\ QueryOnly
    \/ QValidate /\ QueryOnly
    \/ QInvoke /\ QueryOnly
    \/ QAdaptStart /\ QueryOnly
    \/ QAdaptSkipChunk /\ QueryOnly
    \/ QAdaptNextItem /\ QueryOnly
    \/ QAdaptBadChunk /\ QueryOnly
    \/ QAdaptSourceRaises /\ QueryOnly
    \/ QAdaptEnd /\ QueryOnly
    \/ QExcept /\ QueryOnly
    \/ QComplete /\ QueryOnly

Spec == Init /\ [][Next]_vars

\* Concurrent exchanges resolving their conversation on one runner.
ConvOnly ==
    UNCHANGED <<adapterVars, queryVars, nativeVars, chatVars, singletonVars>>

ConvSpecInit ==
    AdapterInit /\ QueryIdle /\ ConvInit /\ NativeIdle /\ ChatIdle
    /\ SingletonIdle

ConvNext ==
    \/ \E t \in Tasks : TCheck(t) /\ ConvOnly
    \/ \E t \in Tasks : TCreate(t) /\ ConvOnly
    \/ \E t \in Tasks : TStore(t) /\ ConvOnly

SpecConv == ConvSpecInit /\ [][ConvNext]_vars

\* One native exchange served as an SSE stream.
NativeOnly ==
    UNCHANGED <<adapterVars, queryVars, convVars, chatVars, singletonVars>>

NativeSpecInit ==
    AdapterInit /\ QueryIdle /\ ConvIdle /\ NativeInit /\ ChatIdle
    /\ SingletonIdle

NativeNext ==
    \/ NNotStarted /\ NativeOnly
    \/ NMissingContext /\ NativeOnly
    \/ NValidate /\ NativeOnly
    \/ NInvoke /\ NativeOnly
    \/ NChunk /\ NativeOnly
    \/ NStreamRaises /\ NativeOnly
    \/ NStreamEnd /\ NativeOnly

SpecNative == NativeSpecInit /\ [][NativeNext]_vars

\* One response of the chat endpoint: the native exchange and the
\* disconnect listener.  The endpoint's runner is started and both ids are
\* passed, so the not-started and missing-context paths do not occur.
ChatOnly == UNCHANGED <<adapterVars, queryVars, convVars, singletonVars>>

ChatSpecInit ==
    AdapterInit /\ QueryIdle /\ ConvIdle /\ ChatInit /\ SingletonIdle

ChatNext ==
    \/ NValidate /\ Streaming /\ NativeOnly
    \/ NInvoke /\ Streaming /\ NativeOnly
    \/ NChunk /\ Streaming /\ NativeOnly
    \/ NStreamRaises /\ Streaming /\ NativeOnly
    \/ NStreamEnd /\ Streaming /\ NativeOnly
    \/ LReceive /\ ChatOnly
    \/ LStopReturns /\ ChatOnly
    \/ CancelStream /\ ChatOnly
    \/ CancelListener /\ ChatOnly

SpecChat == ChatSpecInit /\ [][ChatNext]_vars

\* Concurrent calls of get_alias_runner.
SingletonOnly ==
    UNCHANGED <<adapterVars, runnerVars, queryVars, convVars, nativeVars,
                chatVars>>

SingletonSpecInit ==
    AdapterInit /\ RunnerIdle /\ QueryIdle /\ ConvIdle /\ NativeIdle /\ ChatIdle
    /\ SingletonInit

SingletonNext ==
    \/ \E t \in Tasks : GCall(t) /\ SingletonOnly
    \/ \E t \in Tasks : GAcquire(t) /\ SingletonOnly
    \/ \E t \in Tasks : GStarted(t) /\ SingletonOnly
    \/ \E t \in Tasks : GStartRaises(t) /\ SingletonOnly

SpecSingleton == SingletonSpecInit /\ [][SingletonNext]_vars

(***************************************************************************)
(* Observations on the adapter's input and output.                         *)
(***************************************************************************)
\* The (correlation_id, message_kind) pair of an item.
Identity(item) == <<ToolCallId(item), RuntimeType(item.type)>>

IdentitiesFed == {Identity(fed[i]) : i \in DOMAIN fed}

KeysFed == {ItemKey(fed[i]) : i \in DOMAIN fed}

\* The raw_text values of the items of one identity, in input order.
RECURSIVE RawTextsFrom(_, _)
RawTextsFrom(items, key) ==
    IF items = <<>> THEN <<>>
    ELSE (IF ItemKey(items[1]) = key THEN <<RawText(items[1])>> ELSE <<>>)
         \o RawTextsFrom(Tail(items), key)

RawTextsOf(key) == RawTextsFrom(fed, key)

\* The text events (delta or replacement) emitted for one identity, in order.
RECURSIVE TextEventsFrom(_, _)
TextEventsFrom(evs, key) ==
    IF evs = <<>> THEN <<>>
    ELSE (IF evs[1].key = key /\ (IsTextDelta(evs[1]) \/ IsTextSet(evs[1]))
          THEN <<evs[1]>> ELSE <<>>)
         \o TextEventsFrom(Tail(evs), key)

TextEventsOf(key) == TextEventsFrom(out, key)

\* What a client holds after applying text events to acc: a replacement
\* overwrites, a delta appends.
RECURSIVE Reconstruct(_, _)
Reconstruct(evs, acc) ==
    IF evs = <<>> THEN acc
    ELSE Reconstruct(Tail(evs),
                     IF evs[1].delta THEN acc \o evs[1].text ELSE evs[1].text)

Prev(ts, i) == IF i = 1 THEN <<>> ELSE ts[i - 1]

PrefixChain(ts) == \A i \in DOMAIN ts : StartsWith(ts[i], Prev(ts, i))

TextKeysFed ==
    {ItemKey(fed[i]) : i \in {j \in DOMAIN fed :
                                RuntimeType(fed[j].type) \in {MESSAGE, REASONING}}}

\* C1: the number of message-opened events emitted equals the number of
\* distinct (correlation_id, message_kind) pairs among the items fed so far.
C1_OpenedPerIdentity ==
    Len(SelectSeq(out, IsMessageOpened)) = Cardinality(IdentitiesFed)

\* Three items, two identities, one of them seen twice; stream ended.
C1_Witness ==
    /\ apc = "done"
    /\ Len(fed) = 3
    /\ Cardinality(IdentitiesFed) = 2
    /\ Len(SelectSeq(out, IsMessageOpened)) = 2

C3_PrefixDelta ==
    \A k \in TextKeysFed :
        LET ts == RawTextsOf(k)
            evs == TextEventsOf(k)
        IN PrefixChain(ts) =>
             /\ \A i \in DOMAIN evs : IsTextDelta(evs[i]) /\ evs[i].text # <<>>
             /\ Len(evs) = Cardinality({i \in DOMAIN ts : ts[i] # Prev(ts, i)})
             /\ Reconstruct(evs, <<>>) = ts[Len(ts)]

\* One identity receives "a", "a" again, then "ab".
C3_Witness ==
    \E k \in TextKeysFed :
        /\ RawTextsOf(k) = << <<"a">>, <<"a">>, <<"a", "b">> >>
        /\ Len(TextEventsOf(k)) = 2

\* C4: for a MESSAGE / REASONING identity, every raw_text that does not
\* start with the accumulated text is emitted as a full replacement
\* carrying that raw_text, the accumulated text always equals the latest
\* raw_text, and so does the text a client reconstructs from the events.
C4_ReplaceAndReset ==
    \A k \in TextKeysFed :
        LET ts == RawTextsOf(k)
            evs == TextEventsOf(k)
            sets == {i \in DOMAIN ts : ~StartsWith(ts[i], Prev(ts, i))}
        IN /\ Len(SelectSeq(evs, IsTextSet)) = Cardinality(sets)
           /\ \A i \in sets : \E j \in DOMAIN evs :
                                 IsTextSet(evs[j]) /\ evs[j].text = ts[i]
           /\ state_map[k].last_content = ts[Len(ts)]
           /\ Reconstruct(evs, <<>>) = ts[Len(ts)]

\* One identity receives "ab", then "a" (a replacement), then "ab" (a delta
\* relative to the replacement).
C4_Witness ==
    \E k \in TextKeysFed :
        /\ RawTextsOf(k) = << <<"a", "b">>, <<"a">>, <<"a", "b">> >>
        /\ Len(SelectSeq(TextEventsOf(k), IsTextSet)) = 1
        /\ Len(SelectSeq(TextEventsOf(k), IsTextDelta)) = 2

(***************************************************************************)
(* Observations on one stream_query exchange.                              *)
(***************************************************************************)
Statuses(evs) == [i \in DOMAIN evs |-> evs[i].event.status]

IsResponseLevel(y) == y.event.object = "response"

IsTerminal(y) == IsResponseLevel(y) /\ y.event.status \in {"completed", "failed"}

IsFailed(y) == IsResponseLevel(y) /\ y.event.status = "failed"

\* C5: the events yielded by stream_query carry the sequence numbers
\* InitialSeq, InitialSeq + 1, ... in yield order, without gap or repeat,
\* at every point of every path.
C5_SequenceGapFree ==
    /\ \A i \in DOMAIN yielded : yielded[i].sequence_number = InitialSeq + i - 1
    /\ seq_gen = InitialSeq + Len(yielded)

\* An exchange that failed after the adapter had forwarded message events.
C5_Witness ==
    /\ qpc = "done"
    /\ response.status = "failed"
    /\ Len(fed) >= 2
    /\ Len(yielded) >= 8

\* C6: a response-level completed or failed event is the last event
\* yielded, and a successful exchange yields exactly one response-level
\* created, one in_progress and one completed event.
C6_TerminalIsLast ==
    /\ \A i \in DOMAIN yielded : IsTerminal(yielded[i]) => i = Len(yielded)
    /\ (qpc = "done" /\ response.status = "completed") =>
         \A st \in {"created", "in_progress", "completed"} :
           Len(SelectSeq(yielded, LAMBDA y : IsResponseLevel(y) /\ y.event.status = st)) = 1

\* C8: when query_handler or the adapted stream raised, the exchange ends
\* with a failed event that is the last event yielded; for a BaseError it
\* carries str(code) and the message of the error, for any other exception
\* the code "500"; no response-level completed event is yielded at all.
C8_FailedCarriesError ==
    /\ (exc # None /\ qpc = "done") =>
         LET last == yielded[Len(yielded)] IN
         /\ IsFailed(last)
         /\ last.event.error # None
         /\ IF exc[1].base
            THEN /\ last.event.error[1].code = IntToStr(exc[1].code)
                 /\ last.event.error[1].message = exc[1].message
            ELSE last.event.error[1].code = "500"
         /\ \A i \in DOMAIN yielded :
              ~(IsResponseLevel(yielded[i]) /\ yielded[i].event.status = "completed")
    /\ \A i \in DOMAIN yielded : IsFailed(yielded[i]) => i = Len(yielded)

\* The backend raised BaseError(503, "down") after two items.
C8_Witness ==
    /\ qpc = "done"
    /\ exc = Some(BaseError(503, "down"))
    /\ Len(fed) = 2
    /\ yielded[Len(yielded)].event.error = Some(Error("503", "down"))

\* C9: with an empty extracted text the exchange yields exactly created,
\* in_progress and failed with code 422, numbered in increasing order; no
\* conversation is resolved or created, query_handler is not called and the
\* adapter is never started.
C9_EmptyText ==
    ExtractText(req.input) = <<>> =>
        /\ conversation_id = None
        /\ conv_calls = 0
        /\ backend_calls = 0
        /\ apc = "new"
        /\ Len(yielded) <= 3
        /\ qpc = "done" =>
             /\ Statuses(yielded) = <<"created", "in_progress", "failed">>
             /\ \A i \in DOMAIN yielded : IsResponseLevel(yielded[i])
             /\ yielded[3].event.error # None
             /\ yielded[3].event.error[1].code = "422"
             /\ yielded[1].sequence_number < yielded[2].sequence_number
             /\ yielded[2].sequence_number < yielded[3].sequence_number

\* The input is a list of turns whose last turn has an empty text content.
C9_Witness ==
    /\ qpc = "done"
    /\ req.input.kind = "list"
    /\ Len(req.input.turns) = 2
    /\ ExtractText(req.input) = <<>>
    /\ Len(yielded) = 3

(***************************************************************************)
(* Observations on concurrent conversation resolution.                     *)
(***************************************************************************)
\* The tasks of session s whose request carries no conversation id.
Unbound(s) == {t \in Tasks : tasks[t].session = s /\ tasks[t].given = None}

InCheckThenCreate(t) == tasks[t].pc \in {"creating", "created"}

\* C10: for the exchanges of one session that carry no conversation id, at
\* most one is between the cache check and the cache store at a time, at
\* most one of them calls create_conversation, and all that are resolved
\* run against the same conversation id.
C10_CreateOncePerSession ==
    \A s \in Sessions :
        /\ Cardinality({t \in Unbound(s) : InCheckThenCreate(t)}) <= 1
        /\ Cardinality({t \in Unbound(s) : tasks[t].made # None}) <= 1
        /\ \A t, u \in Unbound(s) :
             (tasks[t].pc = "resolved" /\ tasks[u].pc = "resolved")
                => tasks[t].conv = tasks[u].conv

(***************************************************************************)
(* Observations on the SSE stream of a native exchange.                    *)
(***************************************************************************)
\* C7: every finished SSE stream of event_generator ends with the frame
\* whose payload is the literal [DONE], on success and on every failure.
C7_StreamEndsWithDone ==
    npc = "done" => (frames # <<>> /\ frames[Len(frames)] = DoneFrame)

(***************************************************************************)
(* Observations on the session -> conversation cache.                      *)
(***************************************************************************)
\* C11: the cache is append-only per key: an entry, once present, is never
\* removed or overwritten by a step of any exchange, and no exchange calls
\* create_conversation for a session that already has an entry.
C11_CacheAppendOnly ==
    [][ /\ \A s \in DOMAIN cache : s \in DOMAIN cache' /\ cache'[s] = cache[s]
        /\ \A t \in Tasks :
             (tasks[t].pc = "creating" /\ tasks'[t].pc # "creating")
                => tasks[t].session \notin DOMAIN cache ]_vars

(***************************************************************************)
(* Observations on the disconnect listener of a chat response.             *)
(***************************************************************************)
Disconnects == SelectSeq(received, LAMBDA m : m = HTTP_DISCONNECT)

\* C12: stop_chat is called once for a disconnect message received during
\* streaming, with the response's user_id and task_id, and is not called
\* for any other message nor when no disconnect was received.
C12_StopOncePerDisconnect ==
    /\ Len(stop_calls) = Len(Disconnects)
    /\ Len(stop_calls) <= 1
    /\ \A i \in 1..Len(stop_calls) :
          stop_calls[i] = <<sresp.user_id, sresp.task_id>>

\* Another message, then the disconnect, while frames were being sent.
C12_Witness ==
    /\ received = <<"http.request", HTTP_DISCONNECT>>
    /\ stop_calls = <<(<<2, 8>>)>>
    /\ Len(frames) >= 1
    /\ npc = "cancelled"

(***************************************************************************)
(* Observations on the lifecycle of the adapter's messages.                *)
(***************************************************************************)
\* A content-set or content-delta event (text delta, text set, data set).
IsContentEvent(e) == e.object = "content" /\ e.status = "in_progress"

\* The events the step has appended to the adapter's output.
Emitted == SubSeq(out', Len(out) + 1, Len(out'))

\* C13: an item that arrives for an identity whose message was already
\* closed starts a new logical message: the events of that item hold a
\* message-opened for the identity before any content event for it.
C13_ReopenClosedIdentity ==
    [][ Len(fed') = Len(fed) + 1 =>
          LET k == ItemKey(fed'[Len(fed')]) IN
          (k \in DOMAIN state_map /\ state_map[k].is_completed) =>
             \E j \in 1..Len(Emitted) :
                /\ IsMessageOpened(Emitted[j]) /\ Emitted[j].key = k
                /\ \A i \in 1..(j - 1) :
                      ~(IsContentEvent(Emitted[i]) /\ Emitted[i].key = k) ]_vars

\* C14: a chunk that does not match the envelope shape is skipped: the step
\* that takes it from the source emits no event, leaves the identity table
\* and the active identity as they are, does not raise, and the adapter
\* goes on with the following chunks.
C14_MalformedChunkSkipped ==
    [][ (consumed' = consumed + 1 /\ fed' = fed) =>
          /\ out' = out
          /\ state_map' = state_map
          /\ last_active_key' = last_active_key
          /\ exc' = None
          /\ apc' = "run" ]_vars

(***************************************************************************)
(* Observations on the accumulated output of a stream_query exchange.      *)
(***************************************************************************)
\* C15: at the end of an exchange response.output holds only
\* message-completed events with role assistant, and when every append
\* succeeded it holds exactly those the adapter produced, in emission
\* order: no completed message with role tool, no content-level and no
\* response-level event.
C15_OutputAssistantOnly ==
    qpc = "done" =>
       LET assistant ==
             SelectSeq(out, LAMBDA e : IsMessageCompleted(e) /\ e.role = ASSISTANT)
       IN /\ \A i \in 1..Len(response.output) :
                /\ IsMessageCompleted(response.output[i])
                /\ response.output[i].role = ASSISTANT
          /\ Len(response.output) >= Len(assistant) => response.output = assistant

(***************************************************************************)
(* Observations on the chunks of a native exchange.                        *)
(***************************************************************************)
\* A structured error chunk: a dict with an "error" entry.
IsErrorChunk(c) ==
    c.kind = "dict" /\ \E i \in 1..Len(c.d) : c.d[i].k = "error"

\* C16: on a started runner a finished native exchange has yielded either
\* every backend chunk unchanged and in backend order and then [DONE] once,
\* as its last item, or (on failure) the backend chunks relayed so far and
\* then exactly one error chunk, as its last item; without identity context
\* the error chunk is all it yields.
C16_NativeRelay ==
    (npc = "done" /\ health) =>
       /\ nchunks # <<>>
       /\ \/ nchunks = produced \o <<DoneToken>>
          \/ /\ IsErrorChunk(nchunks[Len(nchunks)])
             /\ SubSeq(nchunks, 1, Len(nchunks) - 1) = produced
       /\ (NativeUser(nreq) = None \/ NativeConv(nreq) = None)
             => nchunks = <<MissingContextChunk>>

\* Two backend chunks relayed, then the sentinel.
C16_Witness ==
    /\ npc = "done"
    /\ Len(produced) = 2
    /\ produced[1] # produced[2]
    /\ nchunks = produced \o <<DoneToken>>

(***************************************************************************)
(* Observations on the end of a stream_query exchange.                     *)
(***************************************************************************)
\* A terminal event of the runner's own response object.
IsRunnerTerminal(y) == IsTerminal(y) /\ y.event.key = RequestId

\* C17: an exchange on a started runner that has run to its end has yielded
\* exactly one terminal event of the runner's response, as its last event:
\* completed, or failed with an error that carries a code and a message.
C17_ExplicitTerminal ==
    (qpc = "done" /\ health) =>
       /\ yielded # <<>>
       /\ IsRunnerTerminal(yielded[Len(yielded)])
       /\ Len(SelectSeq(yielded, IsRunnerTerminal)) = 1
       /\ LET last == yielded[Len(yielded)].event IN
          IF last.status = "failed"
          THEN /\ last.error # None
               /\ last.error[1].code # ""
               /\ last.error[1].message # ""
          ELSE last.error = None

\* The conversation could not be created: failed with code 500, the
\* backend was never called.
C17_Witness ==
    /\ qpc = "done"
    /\ conv_calls = 1
    /\ backend_calls = 0
    /\ Len(yielded) = 3
    /\ yielded[3].event.status = "failed"
    /\ yielded[3].event.error[1].code = "500"

(***************************************************************************)
(* Observations on the open messages of the adapter's output.              *)
(***************************************************************************)
\* The identities whose message is open after the first n events of out:
\* message-opened emitted, message-completed not yet.
OpenAfter(n) ==
    { k \in DOMAIN state_map :
        /\ \E i \in 1..n : IsMessageOpened(out[i]) /\ out[i].key = k
        /\ ~\E i \in 1..n : IsMessageCompleted(out[i]) /\ out[i].key = k }

\* C18: at every point of the output stream at most one message is open,
\* and at most one state is left for the finalization to close.
C18_AtMostOneOpen ==
    /\ \A n \in 0..Len(out) : Cardinality(OpenAfter(n)) <= 1
    /\ Cardinality(OpenKeys(state_map)) <= 1

\* Two identities, both still running when the source ends: the first was
\* closed by the switch, the finalization closes the second only.
C18_Witness ==
    /\ apc = "done"
    /\ Len(fed) = 2
    /\ ItemKey(fed[1]) # ItemKey(fed[2])
    /\ fed[1].status = "running" /\ fed[2].status = "running"
    /\ IsMessageCompleted(out[Len(out) - 1])
    /\ out[Len(out) - 1].key = ItemKey(fed[2])

\* C19: when an item's identity differs from the active one, the events of
\* that item start with content-completed and message-completed of the
\* previous identity if its message is still open, and every event of the
\* new identity comes after them; if the previous message is already
\* closed, the item emits no event for it.
C19_CloseBeforeSwitch ==
    [][ (Len(fed') = Len(fed) + 1 /\ last_active_key # None
         /\ last_active_key[1] # ItemKey(fed'[Len(fed')])) =>
          LET prev == last_active_key[1]
              k == ItemKey(fed'[Len(fed')])
          IN IF ~state_map[prev].is_completed
             THEN /\ Len(Emitted) >= 2
                  /\ IsContentCompleted(Emitted[1]) /\ Emitted[1].key = prev
                  /\ IsMessageCompleted(Emitted[2]) /\ Emitted[2].key = prev
                  /\ \A i \in 3..Len(Emitted) : Emitted[i].key = k
             ELSE \A i \in 1..Len(Emitted) : Emitted[i].key # prev ]_vars

\* The second item switched away from a message that was still open: its
\* two completions precede the opening of the new message.
C19_Witness ==
    /\ Len(fed) = 2
    /\ fed[1].status = "running"
    /\ ItemKey(fed[1]) # ItemKey(fed[2])
    /\ Len(out) >= 7
    /\ IsContentCompleted(out[5]) /\ out[5].key = ItemKey(fed[1])
    /\ IsMessageCompleted(out[6]) /\ out[6].key = ItemKey(fed[1])
    /\ IsMessageOpened(out[7]) /\ out[7].key = ItemKey(fed[2])

\* C20: the events of every identity are well-formed: message-opened comes
\* first; a content-set or content-delta event has no content-completed
\* and no message-completed of the identity before it; content-completed
\* immediately precedes message-completed.
C20_WellFormedPerIdentity ==
    \A i \in 1..Len(out) :
       LET k == out[i].key
           earlier == {j \in 1..(i - 1) : out[j].key = k}
       IN out[i].object # "response" =>
          /\ IsMessageOpened(out[i])
                \/ \E j \in earlier : IsMessageOpened(out[j])
          /\ IsContentEvent(out[i]) =>
                \A j \in earlier : /\ ~IsContentCompleted(out[j])
                                   /\ ~IsMessageCompleted(out[j])
          /\ IsMessageCompleted(out[i]) =>
                (i > 1 /\ IsContentCompleted(out[i - 1]) /\ out[i - 1].key = k)

\* C21: an item with status "finished" whose message is open (just opened,
\* or opened earlier and not yet completed) ends its events with
\* content-completed and message-completed of its identity, after its
\* payload event: one data payload for a plugin call or output, one text
\* event for a text identity whose text changed.  An item with any other
\* status emits no completion of its own identity.
C21_ClosedWhenFinished ==
    [][ Len(fed') = Len(fed) + 1 =>
          LET item == fed'[Len(fed')]
              k == ItemKey(item)
              n == Len(Emitted)
              wasOpen == k \notin DOMAIN state_map \/ ~state_map[k].is_completed
              before == IF k \in DOMAIN state_map
                        THEN state_map[k].last_content ELSE <<>>
              payloads == {i \in 1..n : IsContentEvent(Emitted[i])
                                          /\ Emitted[i].key = k}
              changed == IF RuntimeType(item.type) \in {MESSAGE, REASONING}
                         THEN RawText(item) # before ELSE TRUE
          IN /\ (item.status = "finished" /\ wasOpen) =>
                   /\ n >= 2
                   /\ IsContentCompleted(Emitted[n - 1]) /\ Emitted[n - 1].key = k
                   /\ IsMessageCompleted(Emitted[n]) /\ Emitted[n].key = k
                   /\ Cardinality(payloads) = (IF changed THEN 1 ELSE 0)
                   /\ \A i \in payloads : i < n - 1
                   /\ state_map'[k].is_completed
             /\ item.status # "finished" =>
                   \A i \in 1..n :
                      Emitted[i].key = k =>
                         /\ ~IsContentCompleted(Emitted[i])
                         /\ ~IsMessageCompleted(Emitted[i]) ]_vars

\* A first item that is finished: opened, payload, the two completions,
\* while the source stream goes on.
C21_Witness ==
    /\ apc = "run"
    /\ Len(fed) = 1
    /\ fed[1].status = "finished"
    /\ Len(out) = 6
    /\ IsMessageOpened(out[3])
    /\ IsContentEvent(out[4])
    /\ IsContentCompleted(out[5])
    /\ IsMessageCompleted(out[6])

(***************************************************************************)
(* Observations on the end-of-stream finalization.                         *)
(***************************************************************************)
\* C22: when the source stream has ended, the stream-completed marker has
\* been emitted exactly once, as the last event, after the events of every
\* closure attempt, also when a closure attempt failed; a failed attempt
\* never leaves the generator as an exception, and every attempt that did
\* not fail has completed its message.
C22_MarkerAfterClosures ==
    /\ exc = None
    /\ apc # "raised"
    /\ apc = "done" =>
         /\ out[Len(out)] = RbCompleted
         /\ Len(SelectSeq(out, LAMBDA e : e = RbCompleted)) = 1
         /\ \A k \in DOMAIN state_map :
               state_map[k].is_completed =>
                  \E i \in 1..Len(out) : IsMessageCompleted(out[i]) /\ out[i].key = k
    /\ apc # "done" => Len(SelectSeq(out, LAMBDA e : e = RbCompleted)) = 0

\* The source ended after two items, mb.complete() of the open message
\* raised: its content-completed is followed by the marker.
C22_Witness ==
    /\ apc = "done"
    /\ Len(fed) = 2
    /\ \E k \in DOMAIN state_map : ~state_map[k].is_completed
    /\ IsContentCompleted(out[Len(out) - 1])
    /\ out[Len(out)] = RbCompleted

(***************************************************************************)
(* Observations on the forwarding of the adapter's events.                 *)
(***************************************************************************)
\* The completed messages among the adapter's events.
CompletedMessages == SelectSeq(out, IsMessageCompleted)

\* C23: the events stream_query yields after its own created and
\* in_progress are the adapter's events, each once and in the adapter's
\* order, followed only by the exchange's terminal event, whether or not
\* the appends to response.output succeeded; a failed append alone never
\* leads to a failed event.
C23_ForwardAll ==
    (health /\ qpc \in {"stream", "except", "finish", "done"}) =>
       /\ Len(yielded) = 2 + Len(out) + (IF qpc = "done" THEN 1 ELSE 0)
       /\ \A i \in 1..Len(out) : yielded[2 + i].event = out[i]
       /\ (qpc = "done" /\ apc = "done") =>
             yielded[Len(yielded)].event.status = "completed"

\* Two messages were completed, the append of the first failed: the
\* exchange completed and forwarded both.
C23_Witness ==
    /\ qpc = "done"
    /\ apc = "done"
    /\ Len(CompletedMessages) = 2
    /\ response.output = <<CompletedMessages[2]>>
    /\ yielded[Len(yielded)].event.status = "completed"

(***************************************************************************)
(* Observations on the identity context of a native exchange.              *)
(***************************************************************************)
\* The request gives no user_id, or no conversation_id, that resolves to a
\* UUID, neither in kwargs nor in its body.
LacksContext(r) ==
    \/ r.kw_user = None /\ ToUuid(r.req_user) = None
    \/ r.kw_conv = None /\ ToUuid(r.req_conv) = None

\* The value of the entry k of a dict chunk, if any.
Entry(c, k) == {c.d[i].v : i \in {j \in 1..Len(c.d) : c.d[j].k = k}}

\* C24: a native exchange on a started runner whose request lacks a
\* resolvable user_id or conversation_id never calls the backend, never
\* creates a conversation and leaves the session cache alone; when it has
\* ended it has yielded exactly one chunk, an error chunk with code 422.
C24_NoContextNoBackend ==
    (health /\ npc # "idle" /\ LacksContext(nreq)) =>
       /\ backend_calls = 0
       /\ conv_calls = 0
       /\ cache = <<>>
       /\ npc \in {"new", "done"}
       /\ npc = "done" =>
             /\ Len(nchunks) = 1
             /\ IsErrorChunk(nchunks[1])
             /\ Entry(nchunks[1], "code") = {IntV(422)}

\* A user id in kwargs, a conversation id in the body that is no UUID.
C24_Witness ==
    /\ health
    /\ npc = "done"
    /\ nreq.kw_user # None
    /\ nreq.kw_conv = None
    /\ nreq.req_conv = Some("junk")
    /\ Len(nchunks) = 1

(***************************************************************************)
(* Observations on the process-wide runner.                                *)
(***************************************************************************)
RunnersIn(status) == {i \in 1..Len(runners) : runners[i] = status}

\* C25: at most one runner is being started at a time and at most one ever
\* completes its start(); none is constructed once one is published; the
\* published runner is one whose start() has completed, and every call
\* that returned got it; while no start() has completed nothing is
\* published.
C25_SingleRunner ==
    /\ Cardinality(RunnersIn("started")) <= 1
    /\ Cardinality(RunnersIn("starting")) <= 1
    /\ RunnersIn("started") # {} => RunnersIn("starting") = {}
    /\ the_runner # None => runners[the_runner[1]] = "started"
    /\ RunnersIn("started") = {} => the_runner = None
    /\ \A t \in Tasks :
          callers[t].pc = "returned" =>
             (callers[t].ret # None /\ callers[t].ret = the_runner)

\* The first start() raised, a later call constructed and started a second
\* runner, and both callers have that one.
C25_Witness ==
    /\ runners = <<"failed", "started">>
    /\ the_runner = Some(2)
    /\ \A t \in Tasks : callers[t].pc = "returned" /\ callers[t].ret = Some(2)

(***************************************************************************)
(* Observations on the text extracted from the request.                    *)
(***************************************************************************)
\* The text the input stands for, by the last turn only: the input itself
\* when it is plain text; else the last turn's content when that is text,
\* else the text of its last block of type "text", else its text field;
\* and the text field whenever that gives no text.
ClaimedText(agent_input) ==
    IF agent_input.kind = "str" THEN agent_input.text
    ELSE IF agent_input.kind = "list" /\ agent_input.turns # <<>>
    THEN LET last == agent_input.turns[Len(agent_input.turns)]
             blk == IF last.content.kind = "list"
                    THEN LastTextBlock(last.content.blocks) ELSE None
             first == IF last.content.kind = "str" THEN last.content.text
                      ELSE IF blk # None /\ blk[1].text # None THEN blk[1].text[1]
                      ELSE <<>>
         IN IF ~last.isdict THEN <<>>
            ELSE IF first # <<>> THEN first ELSE TurnTextField(last)
    ELSE <<>>

\* C26: once stream_query has extracted the text of its request, the text
\* it went on with is the one the input stands for by its last turn; in
\* particular the exchange is refused as empty input only when that text
\* is empty.
C26_ExtractedText ==
    (health /\ qpc \notin {"new", "created", "in_progress"}) =>
       /\ ExtractText(req.input) = ClaimedText(req.input)
       /\ ClaimedText(req.input) # <<>> =>
             ~(/\ Len(yielded) = 3
               /\ yielded[3].event.error = Some(Error("422", "Empty input text in AgentRequest.input.")))

====
